---- MODULE Spec2Model ----
(***************************************************************************)
(* A model of the open-mic backend server: the blob store of               *)
(* pybackend/storage.py (local directory or cloud bucket), the content     *)
(* derived identifier of pybackend/utils.py, and the HTTP handlers of      *)
(* main.py that combine them with the metadata database.                   *)
(*                                                                         *)
(* Byte strings are sequences of numbers in 0..255.  A path (and a key,     *)
(* which becomes part of one) is the sequence of its components, "/"       *)
(* first when it is absolute; a file name whose extension is taken         *)
(* (os.path.splitext) is a sequence of one-character strings.              *)
(***************************************************************************)
EXTENDS Integers, Sequences, FiniteSets, TLC

(***************************************************************************)
(* hashlib.md5 (RFC 1321).  A 32-bit word is a pair <<hi, lo>> of 16-bit   *)
(* halves, so that no intermediate value leaves the 32-bit integers.       *)
(***************************************************************************)
Half == 65536

MD5K ==
  << <<55146, 42104>>, <<59591, 46934>>, <<9248, 28891>>, <<49597, 52974>>,
     <<62844, 4015>>, <<18311, 50730>>, <<43056, 17939>>, <<64838, 38145>>,
     <<27008, 39128>>, <<35652, 63407>>, <<65535, 23473>>, <<35164, 55230>>,
     <<27536, 4386>>, <<64920, 29075>>, <<42617, 17294>>, <<18868, 2081>>,
     <<63006, 9570>>, <<49216, 45888>>, <<9822, 23121>>, <<59830, 51114>>,
     <<54831, 4189>>, <<580, 5203>>, <<55457, 59009>>, <<59347, 64456>>,
     <<8673, 52710>>, <<49975, 2006>>, <<62677, 3463>>, <<17754, 5357>>,
     <<43491, 59653>>, <<64751, 41976>>, <<26479, 729>>, <<36138, 19594>>,
     <<65530, 14658>>, <<34673, 63105>>, <<28061, 24866>>, <<64997, 14348>>,
     <<42174, 59972>>, <<19422, 53161>>, <<63163, 19296>>, <<48831, 48240>>,
     <<10395, 32454>>, <<60065, 10234>>, <<54511, 12421>>, <<1160, 7429>>,
     <<55764, 53305>>, <<59099, 39397>>, <<8098, 31992>>, <<50348, 22117>>,
     <<62505, 8772>>, <<17194, 65431>>, <<43924, 9127>>, <<64659, 41017>>,
     <<25947, 22979>>, <<36620, 52370>>, <<65519, 62589>>, <<34180, 24017>>,
     <<28584, 32335>>, <<65068, 59104>>, <<41729, 17172>>, <<19976, 4513>>,
     <<63315, 32386>>, <<48442, 62005>>, <<10967, 53947>>, <<60294, 54161>> >>

MD5Shift ==
  << 7, 12, 17, 22, 7, 12, 17, 22, 7, 12, 17, 22, 7, 12, 17, 22,
     5, 9, 14, 20, 5, 9, 14, 20, 5, 9, 14, 20, 5, 9, 14, 20,
     4, 11, 16, 23, 4, 11, 16, 23, 4, 11, 16, 23, 4, 11, 16, 23,
     6, 10, 15, 21, 6, 10, 15, 21, 6, 10, 15, 21, 6, 10, 15, 21 >>

MD5Init == << <<26437, 8961>>, <<61389, 43913>>, <<39098, 56574>>, <<4146, 21622>> >>

\* a + b modulo 2^32
WAdd(a, b) ==
  LET lo == a[2] + b[2]
  IN  << (a[1] + b[1] + (lo \div Half)) % Half, lo % Half >>

\* a rotated left by s bits, 0 < s < 32
WRotl(a, s) ==
  LET w == IF s >= 16 THEN <<a[2], a[1]>> ELSE a
      t == IF s >= 16 THEN s - 16 ELSE s
  IN  IF t = 0 THEN w
      ELSE << ((w[1] * (2 ^ t)) % Half) + (w[2] \div (2 ^ (16 - t))),
              ((w[2] * (2 ^ t)) % Half) + (w[1] \div (2 ^ (16 - t))) >>

\* One bit of the round function of round r (0..3) on the bits x, y, z.
MD5FBit(r, x, y, z) ==
  CASE r = 0 -> IF x = 1 THEN y ELSE z                 \* (x & y) | (~x & z)
    [] r = 1 -> IF z = 1 THEN x ELSE y                 \* (x & z) | (y & ~z)
    [] r = 2 -> (x + y + z) % 2                        \* x ^ y ^ z
    [] r = 3 -> (y + (IF x = 1 \/ z = 0 THEN 1 ELSE 0)) % 2  \* y ^ (x | ~z)

RECURSIVE MD5FHalf(_, _, _, _, _)
MD5FHalf(r, x, y, z, n) ==
  IF n = 0 THEN 0
  ELSE MD5FBit(r, x % 2, y % 2, z % 2)
       + 2 * MD5FHalf(r, x \div 2, y \div 2, z \div 2, n - 1)

MD5F(r, x, y, z) ==
  << MD5FHalf(r, x[1], y[1], z[1], 16), MD5FHalf(r, x[2], y[2], z[2], 16) >>

\* Index of the message word used by step i (0..63).
MD5G(i) ==
  CASE i < 16 -> i
    [] i >= 16 /\ i < 32 -> (5 * i + 1) % 16
    [] i >= 32 /\ i < 48 -> (3 * i + 5) % 16
    [] i >= 48 -> (7 * i) % 16

\* Step i (0..63) on the working state st = <<A, B, C, D>> with block words M.
MD5Step(st, M, i) ==
  LET f == MD5F(i \div 16, st[2], st[3], st[4])
      s == WAdd(WAdd(st[1], f), WAdd(MD5K[i + 1], M[MD5G(i) + 1]))
  IN  <<st[4], WAdd(st[2], WRotl(s, MD5Shift[i + 1])), st[2], st[3]>>

\* Steps lo..hi-1, by halves (each intermediate state is bound as a value
\* before the next step reads it).
RECURSIVE MD5Steps(_, _, _, _)
MD5Steps(st, M, lo, hi) ==
  IF hi - lo = 1 THEN MD5Step(st, M, lo)
  ELSE LET mid == (lo + hi) \div 2
       IN  CHOOSE r \in { MD5Steps(n, M, mid, hi) : n \in {MD5Steps(st, M, lo, mid)} } : TRUE

\* The message followed by 0x80, zeros up to 56 modulo 64, and its length in
\* bits as 8 little-endian bytes (messages here are shorter than 2^21 bytes,
\* so the upper five length bytes are zero).
MD5Pad(data) ==
  LET n == Len(data)
      z == (119 - (n % 64)) % 64
      bits == n * 8
  IN  data \o <<128>> \o [i \in 1..z |-> 0]
      \o [i \in 1..8 |-> IF i <= 3 THEN (bits \div (256 ^ (i - 1))) % 256 ELSE 0]

\* The 16 little-endian words of block k (from 0) of the padded message p.
MD5Block(p, k) ==
  [j \in 1..16 |->
     LET o == 64 * k + 4 * (j - 1)
     IN  << p[o + 3] + 256 * p[o + 4], p[o + 1] + 256 * p[o + 2] >>]

RECURSIVE MD5Blocks(_, _, _)
MD5Blocks(h, p, k) ==
  IF 64 * k >= Len(p) THEN h
  ELSE CHOOSE r \in
         { MD5Blocks(<<WAdd(h[1], st[1]), WAdd(h[2], st[2]),
                       WAdd(h[3], st[3]), WAdd(h[4], st[4])>>, p, k + 1) :
             st \in {MD5Steps(h, MD5Block(p, k), 0, 64)} } : TRUE

\* hashlib.md5(data).digest(): 16 bytes.
MD5Digest(data) ==
  LET h == MD5Blocks(MD5Init, MD5Pad(data), 0)
  IN  [i \in 1..16 |->
         LET w == h[((i - 1) \div 4) + 1]
             b == (i - 1) % 4
         IN  CASE b = 0 -> w[2] % 256
               [] b = 1 -> w[2] \div 256
               [] b = 2 -> w[1] % 256
               [] b = 3 -> w[1] \div 256]

HexChars == << "0", "1", "2", "3", "4", "5", "6", "7",
               "8", "9", "a", "b", "c", "d", "e", "f" >>

HexByte(b) == HexChars[(b \div 16) + 1] \o HexChars[(b % 16) + 1]

\* The hexadecimal digits of bytes i..j of bs.
RECURSIVE HexBytes(_, _, _)
HexBytes(bs, i, j) == IF i > j THEN "" ELSE HexByte(bs[i]) \o HexBytes(bs, i + 1, j)

\* uuid.UUID(hex=..., version=4): the 16 bytes with the variant bits set to
\* RFC 4122 and the version nibble set to 4.
UUIDv4(d) ==
  [i \in 1..16 |->
     CASE i = 7 -> 64 + (d[i] % 16)
       [] i = 9 -> 128 + (d[i] % 64)
       [] OTHER -> d[i]]

\* str(UUID): 8-4-4-4-12 hexadecimal digits.
UUIDStr(u) ==
  HexBytes(u, 1, 4) \o "-" \o HexBytes(u, 5, 6) \o "-" \o HexBytes(u, 7, 8)
  \o "-" \o HexBytes(u, 9, 10) \o "-" \o HexBytes(u, 11, 16)

(***************************************************************************)
(* pybackend.utils.uuid.  The argument is bytes, or text (str) given as    *)
(* its code points, which is first encoded as UTF-8.                       *)
(***************************************************************************)
\* What stands for the bytes when the encoder raises UnicodeEncodeError.
Unencodable == <<-1>>

\* The UTF-8 bytes of one code point (Python 3); a lone surrogate
\* (U+D800..U+DFFF) cannot be encoded.
Utf8Char(c) ==
  CASE c < 128 -> <<c>>
    [] c >= 128 /\ c < 2048 -> <<192 + (c \div 64), 128 + (c % 64)>>
    [] c >= 55296 /\ c <= 57343 -> Unencodable
    [] (c >= 2048 /\ c < 55296) \/ (c > 57343 /\ c < 65536) ->
         <<224 + (c \div 4096), 128 + ((c \div 64) % 64), 128 + (c % 64)>>
    [] c >= 65536 ->
         <<240 + (c \div 262144), 128 + ((c \div 4096) % 64),
           128 + ((c \div 64) % 64), 128 + (c % 64)>>

RECURSIVE Utf8(_, _)
Utf8(cs, i) ==
  IF i > Len(cs) THEN <<>>
  ELSE IF Utf8Char(cs[i]) = Unencodable \/ Utf8(cs, i + 1) = Unencodable
       THEN Unencodable
  ELSE Utf8Char(cs[i]) \o Utf8(cs, i + 1)

Bytes(bs) == [isStr |-> FALSE, val |-> bs]
Text(cs) == [isStr |-> TRUE, val |-> cs]

\* The interpreters the server is deployed on (Python 2.7 and Python 3).
Pythons == {2, 3}

\* All of the values are below 128 (ASCII).
IsAscii(vals) == \A i \in 1..Len(vals) : vals[i] < 128

\* uuid(data) on interpreter v: the error raised ("" for none) and the UUID,
\* as its 16 bytes.  On Python 3 text (str) is encoded as UTF-8 and bytes are
\* hashed as they are.  On Python 2 a byte string is a str, and
\* bytearray(data, 'utf8') decodes it as ASCII first; text (unicode) goes to
\* hashlib.md5 as it is, which encodes it as ASCII.
uuidOn(v, data) ==
  LET raw == IF v = 3 /\ data.isStr THEN Utf8(data.val, 1) ELSE data.val
      err == CASE v = 3 /\ data.isStr /\ raw = Unencodable -> "UnicodeEncodeError"
               [] v = 2 /\ ~data.isStr /\ ~IsAscii(data.val) -> "UnicodeDecodeError"
               [] v = 2 /\ data.isStr /\ ~IsAscii(data.val) -> "UnicodeEncodeError"
               [] OTHER -> ""
  IN  IF err # "" THEN [raised |-> err, id |-> <<>>]
      ELSE [raised |-> "", id |-> UUIDv4(MD5Digest(raw))]

(***************************************************************************)
(* Paths, as the sequences of their components: "/srv/tmp" is              *)
(* <<"/", "srv", "tmp">>, the key "sub/a.wav" is <<"sub", "a.wav">>.  A    *)
(* separator at the end leaves an empty last component: "new.wav/" is      *)
(* <<"new.wav", "">>.  The empty string is << >>.                          *)
(***************************************************************************)
\* Whether the path ends with a separator.
EndsWithSep(p) == Len(p) > 0 /\ (p[Len(p)] = "" \/ p = <<"/">>)

\* os.path.join(a, b): b alone when it is absolute; otherwise a, a separator
\* unless a is empty or ends with one, and b.
PathJoin(a, b) ==
  IF Len(b) > 0 /\ b[1] = "/" THEN b
  ELSE IF Len(a) = 0 THEN b
  ELSE IF Len(b) = 0 THEN (IF EndsWithSep(a) THEN a ELSE Append(a, ""))
  ELSE IF a[Len(a)] = "" THEN SubSeq(a, 1, Len(a) - 1) \o b
  ELSE a \o b

\* os.path.normpath of an absolute path, from component i on: empty and "."
\* components go, ".." takes the component before it away.
RECURSIVE NormFrom(_, _, _)
NormFrom(p, i, acc) ==
  IF i > Len(p) THEN acc
  ELSE IF p[i] \in {"", "."} THEN NormFrom(p, i + 1, acc)
  ELSE IF p[i] = ".."
  THEN NormFrom(p, i + 1, IF Len(acc) > 1 THEN SubSeq(acc, 1, Len(acc) - 1) ELSE acc)
  ELSE NormFrom(p, i + 1, Append(acc, p[i]))

\* os.path.dirname(p)
Dirname(p) ==
  IF Len(p) = 0 \/ p = <<"/">> THEN p ELSE SubSeq(p, 1, Len(p) - 1)

(***************************************************************************)
(* File names, as sequences of one-character strings.                      *)
(***************************************************************************)
RECURSIVE StrFrom(_, _)
StrFrom(cs, i) == IF i > Len(cs) THEN "" ELSE cs[i] \o StrFrom(cs, i + 1)

\* The string of a sequence of characters.
Str(cs) == StrFrom(cs, 1)

\* str.rfind of a character: the last position of c in p, 0 when absent.
RFind(p, c) ==
  LET at == {i \in 1..Len(p) : p[i] = c}
  IN  IF at = {} THEN 0 ELSE CHOOSE i \in at : \A j \in at : j <= i

\* os.path.splitext(p)[-1]
SplitExt(p) ==
  LET sepIndex == RFind(p, "/")
      dotIndex == RFind(p, ".")
  IN  IF dotIndex > sepIndex
         /\ \E k \in (sepIndex + 1)..(dotIndex - 1) : p[k] # "."
      THEN SubSeq(p, dotIndex, Len(p))
      ELSE <<>>

(***************************************************************************)
(* Bounds and inputs.                                                      *)
(***************************************************************************)
MaxPayload == 1          \* longest enumerated payload, in bytes

ByteVals == {0, 255}

RECURSIVE SeqsUpTo(_, _)
SeqsUpTo(S, n) ==
  IF n = 0 THEN {<<>>}
  ELSE LET shorter == SeqsUpTo(S, n - 1)
       IN  shorter \cup {Append(q, x) : q \in shorter, x \in S}

Payloads == SeqsUpTo(ByteVals, MaxPayload)

\* The buffer of a C stdio stream on a regular file (its st_blksize), through
\* which the file object of Python 2 writes and reads.
StdioBlock == 4096

\* SMALLCHUNK, the least buffer that fp.read() of Python 3 asks for.
SmallChunk == 8192

\* A payload one byte longer than the stdio buffer: 1, 2, ..., 100, 1, 2, ...
LongPayload ==
  SubSeq([i \in 1..(StdioBlock + 1) |-> 1 + ((i - 1) % 100)], 1, StdioBlock + 1)

\* Keys: two file names and one key with a directory part ("sub/a.wav").
Keys == { <<"a.wav">>, <<"my_song">>, <<"sub", "a.wav">> }

\* pybackend.LOCAL and pybackend.GCLOUD (LOCAL is a reserved word here).
Local == "local"
Gcloud == "gcloud"

NoPath == <<"<None>">>   \* local_dir=None
NoBytes == <<-1>>        \* no byte string (None, or nothing returned)

Cwd == <<"/", "srv">>
LocalDirs == { NoPath, <<"tmp">> }
BucketName == "blah-blah-5678"
ProjectId == "my-project-3"

VARIABLES
  py,           \* the interpreter the server runs on: 2 (Python 2.7) or 3
  store,        \* the Storage object in use (made = FALSE: none yet)
  fsDirs,       \* local file system: the directories
  fsFiles,      \* local file system: regular files, path -> bytes
  cloudBucket,  \* cloud storage: whether the bucket named BucketName exists
  cloudObjs,    \* cloud storage: the bucket's objects, key -> bytes
  ret,          \* outcome of the latest call on the storage interface
  latest,       \* history: key -> payload of the latest upload call for it
  now,          \* the clock read by datetime.datetime.now()
  db,           \* the metadata database: uri -> record
  resp,         \* the latest HTTP request and the response to it
  keysOf,       \* history: body -> the (extension, filepath) pairs derived for it
  posted,       \* history: uri -> body of the latest upload answered 200 with it
  ids,          \* history: the latest call of uuid and one remembered earlier call
  procs         \* the calls in progress, per concurrent caller

blobVars == <<fsDirs, fsFiles, cloudBucket, cloudObjs>>
storeVars == <<py, store, fsDirs, fsFiles, cloudBucket, cloudObjs, ret, latest>>
httpVars == <<now, db, resp, keysOf, posted>>
vars ==
  <<py, store, fsDirs, fsFiles, cloudBucket, cloudObjs, ret, latest, now, db, resp,
    keysOf, posted, ids, procs>>

NoStore ==
  [made |-> FALSE, name |-> "", project_id |-> "", backend |-> "", root_dir |-> NoPath]

\* A call: the method, its arguments (key also holds __init__'s local_dir), the
\* error raised ("" for none), the bytes returned, whether an object was made,
\* and how many client handles were constructed on the way.
NoRet ==
  [op |-> "", backend |-> "", key |-> <<>>, data |-> NoBytes, raised |-> "",
   value |-> NoBytes, made |-> FALSE, clients |-> 0]

(***************************************************************************)
(* The local file system, as far as storage.py uses it.                    *)
(***************************************************************************)
\* All directories on the way to the absolute path dpath, dpath included.
Ancestors(dpath) == {SubSeq(dpath, 1, n) : n \in 1..Len(dpath)}

\* One component further from the directory cur: "." and the empty component
\* (a doubled or final separator) stay, ".." goes to the parent (the root is
\* its own parent).
StepInto(cur, c) ==
  IF c \in {".", ""} THEN cur ELSE IF c = ".." THEN Dirname(cur) ELSE Append(cur, c)

\* Path resolution by the file system, from component i on, standing at cur:
\* every component is looked up in a directory, so what has been reached so
\* far must be one (ENOTDIR for a regular file, ENOENT for nothing).  The
\* place reached need not exist.  A path that ends with a separator is looked
\* up as a directory: its last name must be one.
RECURSIVE Lookup(_, _, _, _, _)
Lookup(dirs, files, path, i, cur) ==
  IF i > Len(path) THEN [raised |-> "", path |-> cur]
  ELSE IF cur \in DOMAIN files THEN [raised |-> "IOError:ENOTDIR", path |-> cur]
  ELSE IF cur \notin dirs THEN [raised |-> "IOError:ENOENT", path |-> cur]
  ELSE Lookup(dirs, files, path, i + 1, StepInto(cur, path[i]))

\* The file or directory that an absolute path names, or the error of the
\* lookup (os.path.join leaves "." and ".." in the path).
Resolve(dirs, files, path) == Lookup(dirs, files, path, 2, <<"/">>)

\* os.path.exists(dpath)
PathExists(dirs, files, dpath) ==
  /\ Resolve(dirs, files, dpath).raised = ""
  /\ Resolve(dirs, files, dpath).path \in dirs \cup DOMAIN files

\* os.makedirs(dpath), for a path without "." or ".." (root_dir is an
\* abspath): the directories afterwards and the error raised.  It raises
\* EEXIST when dpath is there already and ENOTDIR below a regular file.
OsMakedirs(dirs, files, dpath) ==
  IF dpath \in dirs \cup DOMAIN files
  THEN [dirs |-> dirs, raised |-> "IOError:EEXIST"]
  ELSE IF \E a \in Ancestors(dpath) : a \in DOMAIN files
  THEN [dirs |-> dirs, raised |-> "IOError:ENOTDIR"]
  ELSE [dirs |-> dirs \cup Ancestors(dpath), raised |-> ""]

\* _makedirs(dpath), run alone: os.makedirs unless the path exists.
Makedirs(dirs, files, dpath) ==
  IF PathExists(dirs, files, dpath) THEN [dirs |-> dirs, raised |-> ""]
  ELSE OsMakedirs(dirs, files, dpath)

\* The path without the separators at its end.
RECURSIVE StripSep(_)
StripSep(path) ==
  IF Len(path) > 1 /\ path[Len(path)] = ""
  THEN StripSep(SubSeq(path, 1, Len(path) - 1))
  ELSE path

\* open(path, 'wb'): "" when the file is opened (created or truncated), else
\* the error raised.  The directories on the way are looked up first; a path
\* that ends with a separator then cannot be created or written (EISDIR,
\* whatever its last name is: nothing, a file or a directory).
OpenWbError(dirs, files, path) ==
  LET r == Resolve(dirs, files, StripSep(path))
  IN  IF r.raised # "" THEN r.raised
      ELSE IF EndsWithSep(path) THEN "IOError:EISDIR"
      ELSE IF r.path \in dirs THEN "IOError:EISDIR"
      ELSE ""

\* The files after open(path, 'wb'): the file is there and empty when the
\* open succeeded, and nothing has changed when it raised.
OpenWb(dirs, files, path) ==
  LET f == Resolve(dirs, files, path).path
  IN  IF OpenWbError(dirs, files, path) # "" THEN files
      ELSE [g \in DOMAIN files \cup {f} |-> IF g = f THEN <<>> ELSE files[g]]

\* The content of a file after a write of bstream at offset off (bytes before
\* it): the bytes before stay (zeros where the file was shorter), the bytes
\* written follow, then whatever the file held beyond them.  A write of no
\* bytes changes nothing.
WriteAt(old, off, bstream) ==
  LET end == off + Len(bstream)
  IN  IF Len(bstream) = 0 THEN old
      ELSE IF Len(old) < off
      THEN old \o SubSeq([i \in 1..off |-> 0], Len(old) + 1, off) \o bstream
      ELSE SubSeq(old, 1, off) \o bstream \o SubSeq(old, end + 1, Len(old))

\* The content of a file after a handle positioned at its start writes bstream:
\* the bytes written, followed by whatever the file held beyond them.
WriteAtStart(old, bstream) == WriteAt(old, 0, bstream)

\* fp.write(bstream) and close, on a handle from open(path, 'wb').
WriteFile(dirs, files, path, bstream) ==
  [files EXCEPT ![Resolve(dirs, files, path).path] = WriteAtStart(@, bstream)]

\* open(path, 'rb'): "" when the file can be read, else the error raised.
OpenRbError(dirs, files, path) ==
  LET r == Resolve(dirs, files, path)
  IN  IF r.raised # "" THEN r.raised
      ELSE IF r.path \in DOMAIN files THEN ""
      ELSE IF r.path \in dirs THEN "IOError:EISDIR"
      ELSE "IOError:ENOENT"

\* fdata.read() on a handle from open(path, 'rb').
ReadFile(dirs, files, path) == files[Resolve(dirs, files, path).path]

(***************************************************************************)
(* pybackend.storage                                                       *)
(***************************************************************************)
\* os.path.abspath(os.path.expanduser(local_dir)), for a local_dir that does
\* not start with "~": normpath(join(cwd, local_dir)).
Abspath(p) == NormFrom(PathJoin(Cwd, p), 2, <<"/">>)

\* LocalData.path
LocalDataPath(root, name) == PathJoin(root, name)

\* Storage.__init__ without its check of local_dir: os.path.expanduser(None)
\* raises instead.
StorageInitUnchecked(name, project_id, backend, local_dir) ==
  IF backend = Local /\ local_dir = NoPath
  THEN [raised |-> "TypeError", obj |-> NoStore]
  ELSE [raised |-> "",
        obj |-> [made |-> TRUE, name |-> name, project_id |-> project_id,
                 backend |-> backend,
                 root_dir |-> IF backend = Local THEN Abspath(local_dir) ELSE NoPath]]

\* Storage.__init__: the error raised ("" for none) and the object made.
StorageInit(name, project_id, backend, local_dir) ==
  IF backend = Local /\ local_dir = NoPath
  THEN [raised |-> "ValueError", obj |-> NoStore]
  ELSE [raised |-> "",
        obj |-> [made |-> TRUE, name |-> name, project_id |-> project_id,
                 backend |-> backend,
                 root_dir |-> IF backend = Local THEN Abspath(local_dir) ELSE NoPath]]

\* LocalClient.__init__: _makedirs(root_dir).
LocalClient(dirs, files, root_dir) == Makedirs(dirs, files, root_dir)

\* LocalBucket.path
BucketPath(st) == LocalDataPath(st.root_dir, <<st.name>>)

\* LocalBucket.blob(name): _makedirs of the bucket directory.
LocalBucketBlob(dirs, files, st) == Makedirs(dirs, files, BucketPath(st))

\* LocalBlob.path
BlobPath(st, key) == LocalDataPath(BucketPath(st), key)

\* Storage.upload with backend LOCAL up to and including open(path, 'wb'):
\* the directories and files afterwards and the error raised, if any.
LocalUploadOpen(dirs, files, st, key) ==
  LET c == LocalClient(dirs, files, st.root_dir)
      b == LocalBucketBlob(c.dirs, files, st)
      err == OpenWbError(b.dirs, files, BlobPath(st, key))
  IN  IF c.raised # "" THEN [dirs |-> c.dirs, files |-> files, raised |-> c.raised]
      ELSE IF b.raised # ""
      THEN [dirs |-> b.dirs, files |-> files, raised |-> b.raised]
      ELSE [dirs |-> b.dirs,
            files |-> IF err = "" THEN OpenWb(b.dirs, files, BlobPath(st, key))
                      ELSE files,
            raised |-> err]

\* Storage.upload with backend LOCAL, run alone from start to end.
LocalUpload(dirs, files, st, fdata, key) ==
  LET o == LocalUploadOpen(dirs, files, st, key)
  IN  IF o.raised # "" THEN o
      ELSE [o EXCEPT !.files = WriteFile(o.dirs, o.files, BlobPath(st, key), fdata)]

\* Storage.download with backend LOCAL, run alone: the directories afterwards
\* (the client makes its root directory), the error raised and the bytes
\* returned.
LocalDownload(dirs, files, st, key) ==
  LET c == LocalClient(dirs, files, st.root_dir)
      err == IF c.raised # "" THEN c.raised
             ELSE OpenRbError(c.dirs, files, BlobPath(st, key))
  IN  [dirs |-> c.dirs, raised |-> err,
       value |-> IF err = "" THEN ReadFile(c.dirs, files, BlobPath(st, key))
                 ELSE NoBytes]

\* Storage.upload with backend GCLOUD: client.get_bucket raises NotFound for a
\* bucket that does not exist; blob(key).upload_from_string stores the object.
CloudUpload(bucket, objs, fdata, key) ==
  IF ~bucket THEN [objs |-> objs, raised |-> "gcloud.NotFound"]
  ELSE [objs |-> [k \in DOMAIN objs \cup {key} |-> IF k = key THEN fdata ELSE objs[k]],
        raised |-> ""]

\* Storage.download with backend GCLOUD: bucket.get_blob(key) is None for an
\* object that does not exist, and None has no download_as_string.
CloudDownload(bucket, objs, key) ==
  IF ~bucket THEN [raised |-> "gcloud.NotFound", value |-> NoBytes]
  ELSE IF key \notin DOMAIN objs
       THEN [raised |-> "AttributeError", value |-> NoBytes]
  ELSE [raised |-> "", value |-> objs[key]]

\* The errors that say "no such blob".
NotFoundErrors == {"IOError:ENOENT", "gcloud.NotFound"}



(***************************************************************************)
(* The initial state: an empty local directory tree below the working      *)
(* directory, an empty cloud bucket (or none), an empty database.          *)
(***************************************************************************)
Procs == {1, 2}

NoResp ==
  [route |-> "", ct |-> "", bodyOk |-> FALSE, filename |-> "", fext |-> "",
   body |-> NoBytes,
   uri |-> "", status |-> 0, message |-> "", filepath |-> "", created |-> -1,
   received |-> -1, data |-> NoBytes]

NoCall ==
  [set |-> FALSE, data |-> Bytes(<<>>), raised |-> "", id |-> <<>>, at |-> -1]

\* A caller: where its call stands, the call's arguments, the error raised,
\* the bytes read so far (value), the size of the buffer fp.read() fills
\* (bufsize), the bytes read ahead by the C library (held), the number of
\* bytes of the payload written so far (pos), the status of the response, and
\* the number of calls it has made before (calls).
IdleProc ==
  [pc |-> "idle", op |-> "", data |-> NoBytes, key |-> <<>>, uri |-> "",
   filepath |-> "", raised |-> "", value |-> NoBytes, bufsize |-> 0,
   held |-> <<>>, pos |-> 0, status |-> 0, calls |-> 0]

InitBlobs ==
  /\ fsDirs = Ancestors(Cwd)
  /\ fsFiles = << >>
  /\ cloudBucket \in BOOLEAN
  /\ cloudObjs = << >>

InitRest ==
  /\ py \in Pythons
  /\ ret = NoRet
  /\ latest = << >>
  /\ now = 0
  /\ db = << >>
  /\ resp = NoResp
  /\ keysOf = << >>
  /\ posted = << >>
  /\ ids = [last |-> NoCall, kept |-> NoCall]
  /\ procs = [p \in Procs |-> IdleProc]

(***************************************************************************)
(* Calls on the storage interface, one at a time.                          *)
(***************************************************************************)
Init == store = NoStore /\ InitBlobs /\ InitRest

\* s = Storage(name, project_id, backend, local_dir).  A deployment is
\* configured for one backend: the objects made in one behaviour share it.
Construct(backend, local_dir) ==
  LET r == StorageInit(BucketName, ProjectId, backend, local_dir)
  IN  /\ store.made /\ r.raised = "" => backend = store.backend
      /\ store' = IF r.raised = "" THEN r.obj ELSE store
      /\ ret' = [NoRet EXCEPT !.op = "__init__", !.backend = backend,
                              !.key = local_dir, !.raised = r.raised,
                              !.made = r.obj.made]
      /\ UNCHANGED <<py, blobVars, latest, httpVars, ids, procs>>

\* s.upload(fdata, key)
Upload(fdata, key) ==
  /\ store.made
  /\ IF store.backend = Local
     THEN LET r == LocalUpload(fsDirs, fsFiles, store, fdata, key)
          IN  /\ fsDirs' = r.dirs
              /\ fsFiles' = r.files
              /\ ret' = [NoRet EXCEPT !.op = "upload", !.backend = Local,
                                      !.key = key, !.data = fdata,
                                      !.raised = r.raised, !.clients = 1]
              /\ UNCHANGED cloudObjs
     ELSE LET r == CloudUpload(cloudBucket, cloudObjs, fdata, key)
          IN  /\ cloudObjs' = r.objs
              /\ ret' = [NoRet EXCEPT !.op = "upload", !.backend = Gcloud,
                                      !.key = key, !.data = fdata,
                                      !.raised = r.raised, !.clients = 1]
              /\ UNCHANGED <<fsDirs, fsFiles>>
  /\ latest' = [k \in DOMAIN latest \cup {key} |-> IF k = key THEN fdata ELSE latest[k]]
  /\ UNCHANGED <<py, store, cloudBucket, httpVars, ids, procs>>

\* s.download(key)
Download(key) ==
  /\ store.made
  /\ IF store.backend = Local
     THEN LET r == LocalDownload(fsDirs, fsFiles, store, key)
          IN  /\ fsDirs' = r.dirs
              /\ ret' = [NoRet EXCEPT !.op = "download", !.backend = Local,
                                      !.key = key, !.raised = r.raised,
                                      !.value = r.value, !.clients = 1]
     ELSE LET r == CloudDownload(cloudBucket, cloudObjs, key)
          IN  /\ fsDirs' = fsDirs
              /\ ret' = [NoRet EXCEPT !.op = "download", !.backend = Gcloud,
                                      !.key = key, !.raised = r.raised,
                                      !.value = r.value, !.clients = 1]
  /\ UNCHANGED <<py, store, fsFiles, cloudBucket, cloudObjs, latest, httpVars, ids, procs>>

Next ==
  \/ \E backend \in {Local, Gcloud}, local_dir \in LocalDirs : Construct(backend, local_dir)
  \/ \E fdata \in Payloads, key \in Keys : Upload(fdata, key)
  \/ \E key \in Keys : Download(key)

Spec == Init /\ [][Next]_vars

(***************************************************************************)
(* Properties of the storage interface.                                    *)
(***************************************************************************)
\* What download(key) on the Storage in use returns or raises in this state.
DownloadNow(key) ==
  IF store.backend = Local THEN LocalDownload(fsDirs, fsFiles, store, key)
  ELSE CloudDownload(cloudBucket, cloudObjs, key)

\* C1 (as claimed): on a Storage with backend LOCAL, after upload(b, k), for any
\* key k and payload b, download(k) returns exactly b.
C1_RoundTripEveryKey ==
  (ret.op = "upload" /\ ret.backend = Local)
    => (DownloadNow(ret.key).raised = "" /\ DownloadNow(ret.key).value = ret.data)

\* C1, for keys without a directory part: the round trip holds for every key
\* that names a file directly in the bucket directory.
C1_RoundTripFileNames ==
  (ret.op = "upload" /\ ret.backend = Local /\ Len(ret.key) = 1)
    => (ret.raised = "" /\ DownloadNow(ret.key).raised = ""
        /\ DownloadNow(ret.key).value = ret.data)

\* C2 (as claimed): after any sequence of uploads on a LOCAL Storage, download(k)
\* returns the payload of the latest upload to k, and no upload raises.
C2_LastWriteWins ==
  (store.made /\ store.backend = Local)
    => /\ \A k \in DOMAIN latest :
            DownloadNow(k).raised = "" /\ DownloadNow(k).value = latest[k]
       /\ ret.op = "upload" => ret.raised = ""

\* C2, for keys without a directory part.
C2_LastWriteWinsFileNames ==
  (store.made /\ store.backend = Local)
    => /\ \A k \in DOMAIN latest :
            Len(k) = 1 => DownloadNow(k).raised = "" /\ DownloadNow(k).value = latest[k]
       /\ (ret.op = "upload" /\ Len(ret.key) = 1) => ret.raised = ""

\* C3 (as claimed): download(k) of a key never uploaded raises a not-found
\* error, under the LOCAL and under the CLOUD backend.
C3_DownloadMissingNotFound ==
  (ret.op = "download" /\ ret.key \notin DOMAIN latest)
    => (ret.raised \in NotFoundErrors /\ ret.value = NoBytes)

\* C3, the LOCAL half: there the error is the not-found error, for the keys
\* that do not pass through an uploaded file.
C3_LocalMissingNotFound ==
  (ret.op = "download" /\ ret.backend = Local /\ ret.key \notin DOMAIN latest)
    => (ret.raised = "IOError:ENOENT" /\ ret.value = NoBytes)

\* C3, what holds under both backends: a key never uploaded yields no bytes.
C3_MissingNeverReturnsBytes ==
  (ret.op = "download" /\ ret.key \notin DOMAIN latest)
    => (ret.raised # "" /\ ret.value = NoBytes)

\* C4: Storage(backend=LOCAL, local_dir=None) raises the configuration error
\* (ValueError) and does nothing else: no object results, no client is
\* constructed, and no directory, file or cloud object is created or changed.
C4_LocalNeedsLocalDir ==
  [][(ret'.op = "__init__" /\ ret'.backend = Local /\ ret'.key = NoPath)
       => /\ ret'.raised = "ValueError"
          /\ ~ret'.made
          /\ ret'.clients = 0
          /\ store' = store
          /\ UNCHANGED blobVars]_vars

\* C4's case: the failed construction, after a Storage was made and used.
C4_Witness ==
  /\ ret.op = "__init__" /\ ret.backend = Local /\ ret.key = NoPath
  /\ ret.raised = "ValueError"
  /\ store.made
  /\ DOMAIN fsFiles # {}

(***************************************************************************)
(* The HTTP layer (main.py): inputs.                                       *)
(***************************************************************************)
MaxClock == 1            \* the clock runs from 0 to MaxClock

\* b'my file contents', the upload of tests/test_main.py.
MyFileContents ==
  <<109, 121, 32, 102, 105, 108, 101, 32, 99, 111, 110, 116, 101, 110, 116, 115>>

\* Two different 128-byte messages with the same MD5 digest
\* 79054025255fb1a26e4bc422aef54eb4 (Wang and Yu, 2005).
CollisionA ==
  <<
     209, 49, 221, 2, 197, 230, 238, 196, 105, 61, 154, 6, 152, 175, 249, 92,
     47, 202, 181, 135, 18, 70, 126, 171, 64, 4, 88, 62, 184, 251, 127, 137,
     85, 173, 52, 6, 9, 244, 179, 2, 131, 228, 136, 131, 37, 113, 65, 90,
     8, 81, 37, 232, 247, 205, 201, 159, 217, 29, 189, 242, 128, 55, 60, 91,
     216, 130, 62, 49, 86, 52, 143, 91, 174, 109, 172, 212, 54, 201, 25, 198,
     221, 83, 226, 180, 135, 218, 3, 253, 2, 57, 99, 6, 210, 72, 205, 160,
     233, 159, 51, 66, 15, 87, 126, 232, 206, 84, 182, 112, 128, 168, 13, 30,
     198, 152, 33, 188, 182, 168, 131, 147, 150, 249, 101, 43, 111, 247, 42, 112 >>

CollisionB ==
  <<
     209, 49, 221, 2, 197, 230, 238, 196, 105, 61, 154, 6, 152, 175, 249, 92,
     47, 202, 181, 7, 18, 70, 126, 171, 64, 4, 88, 62, 184, 251, 127, 137,
     85, 173, 52, 6, 9, 244, 179, 2, 131, 228, 136, 131, 37, 241, 65, 90,
     8, 81, 37, 232, 247, 205, 201, 159, 217, 29, 189, 114, 128, 55, 60, 91,
     216, 130, 62, 49, 86, 52, 143, 91, 174, 109, 172, 212, 54, 201, 25, 198,
     221, 83, 226, 52, 135, 218, 3, 253, 2, 57, 99, 6, 210, 72, 205, 160,
     233, 159, 51, 66, 15, 87, 126, 232, 206, 84, 182, 112, 128, 40, 13, 30,
     198, 152, 33, 188, 182, 168, 131, 147, 150, 249, 101, 171, 111, 247, 42, 112 >>

HttpBodies == {MyFileContents, CollisionA, CollisionB}

\* "blah.wav" (tests/test_main.py) and "blah.mp3".
Filenames == { <<"b", "l", "a", "h", ".", "w", "a", "v">>,
               <<"b", "l", "a", "h", ".", "m", "p", "3">> }

\* The bodies uploaded as time passes.
NamedBodies == {MyFileContents, <<255>>}

\* Arguments of direct calls of uuid: b'', b'\xff', b'my file contents',
\* u'\xe9' and its UTF-8 encoding, u'a', u'a\ud800' (a lone surrogate).
UuidCallArgs ==
  { Bytes(<<>>), Bytes(<<255>>), Bytes(MyFileContents), Text(<<233>>),
    Bytes(<<195, 169>>), Text(<<97>>), Text(<<97, 55296>>) }

UuidArgs ==
  {Bytes(b) : b \in HttpBodies \cup NamedBodies \cup {LongPayload}} \cup UuidCallArgs

\* The values of uuid on the arguments used here, computed once.
UuidMemo2 == [d \in UuidArgs |-> uuidOn(2, d)]

UuidMemo3 == [d \in UuidArgs |-> uuidOn(3, d)]

\* The body of uuid, on the interpreter in use.
uuidCompute(data) == uuidOn(py, data)

\* pybackend.utils.uuid(data)
uuid(data) ==
  IF data \in UuidArgs
  THEN IF py = 3 THEN UuidMemo3[data] ELSE UuidMemo2[data]
  ELSE uuidCompute(data)

\* The Storage every handler constructs from app.config['cloud']['storage']
\* (the local configuration: backend local, local_dir "tmp").
AppStorage == StorageInit(BucketName, ProjectId, Local, <<"tmp">>)

\* "{}{}".format(uri, fext), with the request time put in (a file name per
\* upload instead of per content).
FilepathStamped(uri, fext) == uri \o "-" \o HexChars[now + 1] \o fext

\* filepath = "{}{}".format(uri, fext)
Filepath(uri, fext) == uri \o fext

\* None, as dbase.get answers for a key it does not have.
NoRecord == [filepath |-> "", created |-> -1]

\* pybackend.database.Database.put(key, record)
DatabasePut(d, key, record) ==
  [k \in DOMAIN d \cup {key} |-> IF k = key THEN record ELSE d[k]]

\* pybackend.database.Database.get(key)
DatabaseGet(d, key) == IF key \in DOMAIN d THEN d[key] ELSE NoRecord

(***************************************************************************)
(* The handlers, one request at a time.                                    *)
(***************************************************************************)
\* audio_upload up to the call of store.upload: uri, fext and filepath.
UploadNames(filename, bytestring) ==
  LET id == uuid(Bytes(bytestring))
      uri == IF id.raised = "" THEN UUIDStr(id.id) ELSE ""
      fext == Str(SplitExt(filename))
  IN  [raised |-> id.raised, uri |-> uri, fext |-> fext,
       filepath |-> Filepath(uri, fext)]

\* The first upload of each (body, extension) is remembered with its time.
Remember(log, body, n) ==
  LET old == IF body \in DOMAIN log THEN log[body] ELSE {}
      new == IF \E r \in old : r.fext = n.fext THEN old
             ELSE old \cup {[uri |-> n.uri, fext |-> n.fext,
                              filepath |-> n.filepath, at |-> now]}
  IN  [b \in DOMAIN log \cup {body} |-> IF b = body THEN new ELSE log[b]]

\* POST /audio/upload with the file part (filename, bytestring).
AudioUpload(filename, bytestring) ==
  LET n == UploadNames(filename, bytestring)
      up == LocalUpload(fsDirs, fsFiles, AppStorage.obj, bytestring, <<n.filepath>>)
      record == [filepath |-> n.filepath, created |-> now]
      req == [NoResp EXCEPT !.route = "audio_upload", !.filename = Str(filename),
                            !.fext = n.fext, !.body = bytestring]
  IN  /\ fsDirs' = IF n.raised # "" THEN fsDirs ELSE up.dirs
      /\ fsFiles' = IF n.raised # "" THEN fsFiles ELSE up.files
      /\ IF n.raised # "" \/ up.raised # ""
         THEN /\ resp' = [req EXCEPT !.status = 500,
                                     !.message = "An internal error occurred."]
              /\ UNCHANGED <<db, keysOf, posted>>
         ELSE /\ db' = DatabasePut(db, n.uri, record)
              /\ resp' = [req EXCEPT !.status = 200, !.uri = n.uri,
                                     !.filepath = n.filepath, !.created = now,
                                     !.received = Len(bytestring),
                                     !.message = "Received {} bytes of data."]
              /\ keysOf' = Remember(keysOf, bytestring, n)
              /\ posted' = [u \in DOMAIN posted \cup {n.uri} |->
                              IF u = n.uri THEN bytestring ELSE posted[u]]
      /\ UNCHANGED <<py, store, cloudBucket, cloudObjs, ret, latest, now, ids, procs>>

\* audio_download(uri): the response, and the directories afterwards.
AudioDownloadResponse(uri) ==
  LET entity == DatabaseGet(db, uri)
      got == LocalDownload(fsDirs, fsFiles, AppStorage.obj, <<entity.filepath>>)
  IN  IF entity = NoRecord
      THEN [status |-> 404, message |-> "Resource not found: " \o uri,
            filepath |-> "", data |-> NoBytes, dirs |-> fsDirs]
      ELSE IF got.raised # ""
      THEN [status |-> 500, message |-> "An internal error occurred.",
            filepath |-> "", data |-> NoBytes, dirs |-> got.dirs]
      ELSE [status |-> 200, message |-> "", filepath |-> entity.filepath,
            data |-> got.value, dirs |-> got.dirs]

\* GET /audio/<uri>
AudioDownload(uri) ==
  LET r == AudioDownloadResponse(uri)
  IN  /\ fsDirs' = r.dirs
      /\ resp' = [NoResp EXCEPT !.route = "audio_download", !.uri = uri,
                                !.status = r.status, !.message = r.message,
                                !.filepath = r.filepath, !.data = r.data]
      /\ UNCHANGED <<py, store, fsFiles, cloudBucket, cloudObjs, ret, latest, now, db,
                     keysOf, posted, ids, procs>>

JsonType == "application/json"
InvalidType == "Invalid Content-Type; only accepts application/json"

\* annotation_submit taking every Content-Type that names JSON.
AnnotationLax(ct, bodyOk) ==
  IF ct \in {JsonType, "application/json; charset=utf-8"}
  THEN IF bodyOk THEN [status |-> 200, message |-> "Success!"]
       ELSE [status |-> 400, message |-> "Bad Request"]
  ELSE [status |-> 400, message |-> InvalidType]

\* annotation_submit: status and message.  With the JSON Content-Type the
\* handler reads request.json (for its log line), which answers 400 Bad
\* Request when the body does not parse.
AnnotationResponse(ct, bodyOk) ==
  IF ct = JsonType
  THEN IF bodyOk THEN [status |-> 200, message |-> "Success!"]
       ELSE [status |-> 400, message |-> "Bad Request"]
  ELSE [status |-> 400, message |-> InvalidType]

\* POST /annotation/submit with Content-Type ct and a body that parses as JSON
\* or does not.
AnnotationSubmit(ct, bodyOk) ==
  LET r == AnnotationResponse(ct, bodyOk)
  IN  /\ resp' = [NoResp EXCEPT !.route = "annotation_submit", !.ct = ct,
                                !.bodyOk = bodyOk, !.status = r.status,
                                !.message = r.message]
      /\ UNCHANGED <<storeVars, now, db, keysOf, posted, ids, procs>>

\* Time passes.
Tick ==
  /\ now < MaxClock
  /\ now' = now + 1
  /\ UNCHANGED <<storeVars, db, resp, keysOf, posted, ids, procs>>

ContentTypes == {JsonType, "application/json; charset=utf-8", "text/plain", ""}

\* The identifiers requested: those of the bodies, and one of nothing uploaded.
Uris == {UUIDStr(UuidMemo3[Bytes(b)].id) : b \in HttpBodies}
          \cup {"00000000-0000-4000-8000-000000000000"}

NextHttp ==
  \/ \E filename \in Filenames, bytestring \in HttpBodies : AudioUpload(filename, bytestring)
  \/ \E uri \in Uris : AudioDownload(uri)
  \/ \E ct \in ContentTypes, bodyOk \in BOOLEAN : AnnotationSubmit(ct, bodyOk)

SpecHttp == Init /\ [][NextHttp]_vars

(***************************************************************************)
(* Uploads as time passes.                                                 *)
(***************************************************************************)
NextNames ==
  \/ Tick
  \/ \E filename \in Filenames, bytestring \in NamedBodies : AudioUpload(filename, bytestring)

SpecNames == Init /\ [][NextNames]_vars

(***************************************************************************)
(* Calls of uuid between uploads, as time passes.                          *)
(***************************************************************************)
\* One call uuid(data); the caller may keep the answer for later.
UuidCall(data) ==
  LET call == [set |-> TRUE, data |-> data, raised |-> uuid(data).raised,
               id |-> uuid(data).id, at |-> now]
  IN  /\ \E keep \in BOOLEAN :
           ids' = [last |-> call, kept |-> IF keep THEN call ELSE ids.kept]
      /\ UNCHANGED <<storeVars, httpVars, procs>>

\* The identifiers requested between the calls: that of b'my file contents'
\* and one of nothing uploaded.
UuidUris == {UUIDStr(UuidMemo3[Bytes(MyFileContents)].id),
             "00000000-0000-4000-8000-000000000000"}

NextUuid ==
  \/ Tick
  \/ \E data \in UuidCallArgs : UuidCall(data)
  \/ AudioUpload(<<"b", "l", "a", "h", ".", "w", "a", "v">>, MyFileContents)
  \/ \E uri \in UuidUris : AudioDownload(uri)

SpecUuid == Init /\ [][NextUuid]_vars

(***************************************************************************)
(* Claims about the HTTP layer.                                            *)
(***************************************************************************)
UploadAnswered == resp.route = "audio_upload" /\ resp.status = 200

\* The uploads remembered for the body of the upload just answered.
Earlier == IF resp.body \in DOMAIN keysOf THEN keysOf[resp.body] ELSE {}

\* The number of (body, extension) pairs uploaded so far.
RECURSIVE Pairs(_, _)
Pairs(log, bodies) ==
  IF bodies = {} THEN 0
  ELSE LET b == CHOOSE x \in bodies : TRUE
       IN  Cardinality(log[b]) + Pairs(log, bodies \ {b})

\* C5 as stated: whenever audio_upload has answered an upload, every earlier
\* upload of the same bytes was stored under the same filepath.
C5_SameContentSameFilepath ==
  UploadAnswered => \A r \in Earlier : r.filepath = resp.filepath

\* C5, amended: uploads of the same bytes get the same uri, and those that
\* also have the same file name extension get the same filepath, whatever the
\* time of upload, so that there is one blob per content and extension.
C5_SameContentAndExtensionSameFilepath ==
  /\ UploadAnswered =>
       \A r \in Earlier : /\ r.uri = resp.uri
                          /\ r.fext = resp.fext => r.filepath = resp.filepath
  /\ Cardinality(DOMAIN fsFiles) = Pairs(keysOf, DOMAIN keysOf)

\* The same bytes with the same extension have been uploaded at two times.
C5_Witness ==
  /\ UploadAnswered
  /\ \E r \in Earlier : r.fext = resp.fext /\ r.at < resp.created
  /\ Cardinality(Earlier) = 2

\* C6 (as claimed): every call of uuid on a byte string returns an identifier,
\* the identifier that an earlier call on the same bytes returned, whatever
\* uploads, downloads and other calls of uuid happened between the two, and a
\* call of uuid changes neither the blobs, nor the database, nor any other
\* state of the server.
C6_UuidDeterministic ==
  [][(ids' # ids /\ ~ids'.last.data.isStr) =>
       /\ ids'.last.raised = ""
       /\ (ids'.kept.set /\ ids'.kept.data = ids'.last.data)
            => (ids'.kept.raised = "" /\ ids'.kept.id = ids'.last.id)
       /\ UNCHANGED <<storeVars, httpVars, procs>>]_vars

\* C6, what holds: two calls of uuid on the same data, bytes or text, have
\* the same outcome (the same identifier, or the same error where the
\* interpreter refuses the data), whatever happened between them, and a call
\* changes no state of the server.
C6_SameOutcome ==
  [][ids' # ids =>
       /\ (ids'.kept.set /\ ids'.kept.data = ids'.last.data)
            => /\ ids'.kept.id = ids'.last.id
               /\ ids'.kept.raised = ids'.last.raised
       /\ UNCHANGED <<storeVars, httpVars, procs>>]_vars

\* uuid returned the same identifier for the same data before and after an
\* upload was stored and downloaded, at different times.
C6_SameOutcomeReached ==
  /\ ids.kept.set /\ ids.last.set
  /\ ids.kept.data = ids.last.data
  /\ ids.kept.at < ids.last.at
  /\ ids.kept.raised = "" /\ ids.last.raised = ""
  /\ ids.kept.id = ids.last.id
  /\ db # << >>
  /\ \A u \in DOMAIN db : db[u].created = ids.last.at
  /\ resp.route = "audio_download" /\ resp.status = 200

\* On Python 2 two calls of uuid on b'\xff' have both raised
\* UnicodeDecodeError: neither returned an identifier.
C6_NoIdentifierReached ==
  /\ py = 2
  /\ ids.kept.set /\ ids.last.set
  /\ ids.kept.data = Bytes(<<255>>) /\ ids.last.data = Bytes(<<255>>)
  /\ ids.kept.raised = "UnicodeDecodeError"
  /\ ids.last.raised = "UnicodeDecodeError"

\* The bodies that audio_upload answered with this uri.
BodiesOf(uri) == {b \in DOMAIN keysOf : \E r \in keysOf[b] : r.uri = uri}

\* C7 as stated: every upload is answered 200 with a uri, and a later GET of a
\* uri returns the bytes of every upload that was answered with it.
C7_DownloadReturnsUploaded ==
  /\ resp.route = "audio_upload" => resp.status = 200 /\ resp.uri # ""
  /\ resp.route = "audio_download" =>
       \A b \in BodiesOf(resp.uri) : resp.status = 200 /\ resp.data = b

\* What holds of the two handlers: an upload is answered 200 with a uri unless
\* uuid raises on the body (Python 2, a byte above 127), which is answered 500;
\* a GET of a uri returns the bytes of the latest upload answered with it, and
\* 404 for a uri no upload was answered with.
C7_DownloadReturnsLatestAnswered ==
  /\ resp.route = "audio_upload" =>
       IF py = 2 /\ ~IsAscii(resp.body)
       THEN resp.status = 500 /\ resp.uri = ""
       ELSE resp.status = 200 /\ resp.uri # ""
  /\ resp.route = "audio_download" =>
       IF resp.uri \in DOMAIN posted
       THEN resp.status = 200 /\ resp.data = posted[resp.uri]
       ELSE resp.status = 404

\* C8 as stated: annotation_submit answers 200 'Success!' exactly when the
\* Content-Type is 'application/json', answers 400 with the
\* invalid-Content-Type message otherwise, and stores nothing.
C8_SuccessIffJsonType ==
  [][resp'.route = "annotation_submit" =>
       /\ (resp'.status = 200 /\ resp'.message = "Success!") <=> resp'.ct = JsonType
       /\ resp'.ct # JsonType => (resp'.status = 400 /\ resp'.message = InvalidType)
       /\ UNCHANGED <<blobVars, db>>]_vars

\* C8, amended: annotation_submit answers 200 'Success!' exactly when the
\* Content-Type is 'application/json' and the body parses as JSON; with that
\* Content-Type and a body that does not parse it answers 400; with every
\* other Content-Type it answers 400 with the invalid-Content-Type message;
\* in all cases it stores nothing.
C8_SuccessIffJsonTypeAndBody ==
  [][resp'.route = "annotation_submit" =>
       /\ (resp'.status = 200 /\ resp'.message = "Success!")
            <=> (resp'.ct = JsonType /\ resp'.bodyOk)
       /\ (resp'.ct = JsonType /\ ~resp'.bodyOk) => resp'.status = 400
       /\ resp'.ct # JsonType => (resp'.status = 400 /\ resp'.message = InvalidType)
       /\ UNCHANGED <<blobVars, db>>]_vars

\* A JSON Content-Type with a body that does not parse was answered 400 while
\* blobs and records were stored.
C8_Witness ==
  /\ resp.route = "annotation_submit"
  /\ resp.ct = JsonType /\ ~resp.bodyOk
  /\ resp.status = 400 /\ resp.message # InvalidType
  /\ db # << >>
  /\ fsFiles # << >>

(***************************************************************************)
(* Calls on one LOCAL Storage running at once.  A call is the system calls *)
(* of storage.py, each on its own: the client's os.path.exists and         *)
(* os.makedirs of the root directory, for an upload the same two for the   *)
(* bucket directory, open(path, 'wb'), which creates or truncates the      *)
(* file, and the writes through the call's own handle, which starts at     *)
(* offset 0; for a download open(path, 'rb'), the fstat that sizes the     *)
(* buffer, and the reads, which go on until one returns nothing.  Nothing  *)
(* in storage.py locks a file or a directory.                              *)
(***************************************************************************)
MaxCalls == 2            \* calls of one caller, one after the other

RacePayloads == { <<255>>, <<0, 0>>, LongPayload }

RaceKeys == { <<"a.wav">> }

InitRace == store = AppStorage.obj /\ InitBlobs /\ InitRest

callVars == <<py, store, cloudBucket, cloudObjs, ret, latest, httpVars, ids>>

\* The call of process p ends with an error.
Raise(p, err) ==
  [procs EXCEPT ![p] = [@ EXCEPT !.pc = "raised", !.raised = err, !.status = 500]]

Goto(p, pc) == [procs EXCEPT ![p] = [@ EXCEPT !.pc = pc]]

\* Process p calls s.upload(fdata, key).
CallUpload(p, fdata, key) ==
  /\ procs[p].pc = "idle"
  /\ procs' = [procs EXCEPT ![p] =
                 [@ EXCEPT !.pc = "called", !.op = "upload", !.data = fdata,
                           !.key = key]]
  /\ UNCHANGED <<fsDirs, fsFiles, callVars>>

\* Process p calls s.download(key).
CallDownload(p, key) ==
  /\ procs[p].pc = "idle"
  /\ procs' = [procs EXCEPT ![p] =
                 [@ EXCEPT !.pc = "called", !.op = "download", !.key = key]]
  /\ UNCHANGED <<fsDirs, fsFiles, callVars>>

\* self.client -> LocalClient.__init__ -> _makedirs(root_dir): os.path.exists.
ClientExists(p) ==
  /\ procs[p].pc = "called"
  /\ procs' = Goto(p, IF PathExists(fsDirs, fsFiles, AppStorage.obj.root_dir)
                      THEN "client" ELSE "clientMissing")
  /\ UNCHANGED <<fsDirs, fsFiles, callVars>>

\* ... and os.makedirs(root_dir), when the path did not exist.
ClientMakedirs(p) ==
  LET m == OsMakedirs(fsDirs, fsFiles, AppStorage.obj.root_dir)
  IN  /\ procs[p].pc = "clientMissing"
      /\ fsDirs' = m.dirs
      /\ procs' = IF m.raised = "" THEN Goto(p, "client") ELSE Raise(p, m.raised)
      /\ UNCHANGED <<fsFiles, callVars>>

\* bucket.blob(key) -> _makedirs(self.path): os.path.exists.
BucketExists(p) ==
  /\ procs[p].pc = "client" /\ procs[p].op = "upload"
  /\ procs' = Goto(p, IF PathExists(fsDirs, fsFiles, BucketPath(AppStorage.obj))
                      THEN "blob" ELSE "bucketMissing")
  /\ UNCHANGED <<fsDirs, fsFiles, callVars>>

\* ... and os.makedirs of the bucket directory, when it did not exist.
BucketMakedirs(p) ==
  LET m == OsMakedirs(fsDirs, fsFiles, BucketPath(AppStorage.obj))
  IN  /\ procs[p].pc = "bucketMissing"
      /\ fsDirs' = m.dirs
      /\ procs' = IF m.raised = "" THEN Goto(p, "blob") ELSE Raise(p, m.raised)
      /\ UNCHANGED <<fsFiles, callVars>>

\* blob.upload_from_string: open(self.path, 'wb').  With fault the device
\* refuses (no space left, say).
OpenBlob(p, fault) ==
  LET path == BlobPath(AppStorage.obj, procs[p].key)
      err == IF fault THEN "IOError:ENOSPC" ELSE OpenWbError(fsDirs, fsFiles, path)
  IN  /\ procs[p].pc = "blob"
      /\ fsFiles' = IF err = "" THEN OpenWb(fsDirs, fsFiles, path) ELSE fsFiles
      /\ procs' = IF err = "" THEN Goto(p, "opened") ELSE Raise(p, err)
      /\ UNCHANGED <<fsDirs, callVars>>

\* The bytes of a payload of n bytes that are left for the close of the file
\* to write, after fp.write has written the others.  The file object of
\* Python 2 writes the whole stdio blocks of a payload longer than one block
\* in fp.write and the rest in close; otherwise there is one write.
TailAtClose(v, n) == IF v = 2 /\ n > StdioBlock THEN n % StdioBlock ELSE 0

\* The bytes of its payload that the call r has still to write in the part it
\* is in: up to the tail in fp.write, the tail in close.
LeftToWrite(r) ==
  IF r.pc = "written" THEN Len(r.data) - r.pos
  ELSE Len(r.data) - TailAtClose(py, Len(r.data)) - r.pos

\* The process p after a write system call that took taken of the left bytes:
\* a call that takes nothing of what is left fails (no space left on the
\* device) and ends the upload; one that takes a part is followed by another
\* for the rest; after the last the call goes on at pc next.
AfterWrite(p, taken, left, next) ==
  IF taken = 0 /\ left > 0 THEN Raise(p, "IOError:ENOSPC")
  ELSE [procs EXCEPT ![p] =
          [@ EXCEPT !.pos = @ + taken,
                    !.pc = IF taken < left THEN procs[p].pc ELSE next]]

\* fp.write(bstream), and the close when nothing is left for it: one write
\* system call where the handle stands (offset 0 at first), of which the
\* device takes taken bytes.
WriteBlob(p, taken) ==
  LET f == Resolve(fsDirs, fsFiles, BlobPath(AppStorage.obj, procs[p].key)).path
      r == procs[p]
      left == LeftToWrite(r)
  IN  /\ r.pc = "opened"
      /\ taken <= left
      /\ fsFiles' = [fsFiles EXCEPT ![f] =
                       WriteAt(@, r.pos, SubSeq(r.data, r.pos + 1, r.pos + taken))]
      /\ procs' = AfterWrite(p, taken, left,
                             IF TailAtClose(py, Len(r.data)) = 0 THEN "returned"
                             ELSE "written")
      /\ UNCHANGED <<fsDirs, callVars>>

\* The close of the with block, when bytes are left for it: one write system
\* call for the last bytes of the payload where the handle stands, behind
\* the first.
CloseBlob(p, taken) ==
  LET f == Resolve(fsDirs, fsFiles, BlobPath(AppStorage.obj, procs[p].key)).path
      r == procs[p]
      left == LeftToWrite(r)
  IN  /\ r.pc = "written"
      /\ taken <= left
      /\ fsFiles' = [fsFiles EXCEPT ![f] =
                       WriteAt(@, r.pos, SubSeq(r.data, r.pos + 1, r.pos + taken))]
      /\ procs' = AfterWrite(p, taken, left, "returned")
      /\ UNCHANGED <<fsDirs, callVars>>

\* bucket.get_blob(key).download_as_string(): open(self.path, 'rb').
OpenRead(p) ==
  LET path == BlobPath(AppStorage.obj, procs[p].key)
      err == OpenRbError(fsDirs, fsFiles, path)
  IN  /\ procs[p].pc = "client" /\ procs[p].op = "download"
      /\ procs' = IF err # "" THEN Raise(p, err)
                  ELSE [procs EXCEPT ![p] =
                          [@ EXCEPT !.pc = "fstat", !.value = <<>>, !.held = <<>>,
                                    !.bufsize = 0]]
      /\ UNCHANGED <<fsDirs, fsFiles, callVars>>

\* The size of the buffer that fp.read() asks for, the file holding size
\* bytes, of which pos are read, the buffer being of currentsize.  Python 3
\* (FileIO.readall) asks once, before the first read: one byte more than the
\* file, SMALLCHUNK for an empty file.  Python 2 (file.read) asks before the
\* first read and whenever the buffer is full.
BufferSize(v, size, pos, currentsize) ==
  IF v = 3 THEN (IF size > 0 /\ size >= pos THEN size - pos + 1 ELSE SmallChunk)
  ELSE IF size > pos THEN currentsize + size - pos + 1
  ELSE currentsize + (currentsize \div 8) + 6

\* The larger buffer of Python 3 once currentsize bytes are read.
NewBufferSize(currentsize) ==
  LET addend == IF currentsize > 65536 THEN currentsize \div 8 ELSE 256 + currentsize
  IN  currentsize + (IF addend < SmallChunk THEN SmallChunk ELSE addend)

\* The reader r after the bytes held by the C library are moved into the
\* buffer as far as it has room: with the buffer full the next step is an
\* fstat for a larger one, otherwise a read.
Settle(r) ==
  LET room == r.bufsize - Len(r.value)
      take == IF Len(r.held) < room THEN Len(r.held) ELSE room
      value == r.value \o SubSeq(r.held, 1, take)
  IN  [r EXCEPT !.value = value,
                !.held = SubSeq(r.held, take + 1, Len(r.held)),
                !.pc = IF Len(value) = r.bufsize THEN "fstat" ELSE "read"]

\* fp.read(): the fstat that sizes the buffer.
StatBlob(p) ==
  LET f == Resolve(fsDirs, fsFiles, BlobPath(AppStorage.obj, procs[p].key)).path
      r == procs[p]
      sized == [r EXCEPT !.bufsize = BufferSize(py, Len(fsFiles[f]), Len(r.value),
                                                 r.bufsize)]
  IN  /\ r.pc = "fstat"
      /\ procs' = [procs EXCEPT ![p] = IF py = 3 THEN [sized EXCEPT !.pc = "read"]
                                       ELSE Settle(sized)]
      /\ UNCHANGED <<fsDirs, fsFiles, callVars>>

\* The number of bytes that the next read system call asks for.  Python 3
\* reads into the room of its buffer, made larger first when full.  The C
\* library of Python 2 reads one stdio block when less than a block is
\* wanted, and the whole blocks of what is wanted otherwise.
ReadCount(v, bufsize, have) ==
  LET want == bufsize - have
  IN  IF v = 3 THEN (IF have >= bufsize THEN NewBufferSize(have) - have ELSE want)
      ELSE IF want < StdioBlock THEN StdioBlock
      ELSE want - (want % StdioBlock)

\* fp.read(): one read system call, where the handle stands.  A read that
\* returns nothing ends fp.read(), which returns the bytes read so far.
ReadChunk(p) ==
  LET f == Resolve(fsDirs, fsFiles, BlobPath(AppStorage.obj, procs[p].key)).path
      r == procs[p]
      off == Len(r.value)
      count == ReadCount(py, r.bufsize, off)
      last == IF Len(fsFiles[f]) < off + count THEN Len(fsFiles[f]) ELSE off + count
      got == SubSeq(fsFiles[f], off + 1, last)
  IN  /\ r.pc = "read"
      /\ procs' = [procs EXCEPT ![p] =
                     IF got = <<>> THEN [r EXCEPT !.pc = "returned", !.status = 200]
                     ELSE IF py = 3
                     THEN [r EXCEPT !.value = r.value \o got,
                                    !.bufsize = IF off >= r.bufsize
                                                THEN NewBufferSize(off) ELSE r.bufsize]
                     ELSE Settle([r EXCEPT !.held = got])]
      /\ UNCHANGED <<fsDirs, fsFiles, callVars>>

\* The steps of the calls in progress, without faults of the device.
StorageStep(p) ==
  \/ ClientExists(p)
  \/ ClientMakedirs(p)
  \/ BucketExists(p)
  \/ BucketMakedirs(p)
  \/ OpenBlob(p, FALSE)
  \/ WriteBlob(p, LeftToWrite(procs[p]))
  \/ CloseBlob(p, LeftToWrite(procs[p]))
  \/ OpenRead(p)
  \/ StatBlob(p)
  \/ ReadChunk(p)

\* The call of process p is over (it returned or raised): p can call again.
Return(p) ==
  /\ procs[p].pc \in {"returned", "raised"}
  /\ procs[p].calls + 1 < MaxCalls
  /\ procs' = [procs EXCEPT ![p] = [IdleProc EXCEPT !.calls = procs[p].calls + 1]]
  /\ UNCHANGED <<fsDirs, fsFiles, callVars>>

NextRace ==
  \/ \E p \in Procs, fdata \in RacePayloads, key \in RaceKeys : CallUpload(p, fdata, key)
  \/ \E p \in Procs, key \in RaceKeys : CallDownload(p, key)
  \/ \E p \in Procs : StorageStep(p)
  \/ \E p \in Procs : Return(p)

SpecRace == InitRace /\ [][NextRace]_vars

\* C9: once two upload calls to the same key have both returned, download of
\* the key returns the payload of one of them, whole.
C9_RaceLastWriteWins ==
  (/\ \A p \in Procs : procs[p].pc = "returned" /\ procs[p].op = "upload"
   /\ procs[1].key = procs[2].key)
    => /\ DownloadNow(procs[1].key).raised = ""
       /\ DownloadNow(procs[1].key).value \in {procs[1].data, procs[2].data}

\* The file of the one key of the concurrent calls.
RaceFile == fsFiles[BlobPath(AppStorage.obj, <<"a.wav">>)]

\* A download that met an upload returned bytes that the file never held:
\* the caller uploaded b'\xff' and then read it, the other caller's one
\* upload of b'\x00\x00' came between two reads, and download returned
\* b'\xff\x00'.
C9_MixedReadReached ==
  /\ procs[1].calls = 1 /\ procs[1].op = "download" /\ procs[1].pc = "returned"
  /\ procs[1].value = <<255, 0>>
  /\ procs[2].calls = 0 /\ procs[2].op = "upload" /\ procs[2].pc = "returned"
  /\ procs[2].data = <<0, 0>>
  /\ RaceFile = <<0, 0>>

\* On Python 2 an upload of the long payload, written in two parts, met an
\* upload of b'\xff' between them: both returned, and the file is b'\xff',
\* zeros up to the end of the first block, and the last byte of the long
\* payload.
C9_HoleReached ==
  /\ py = 2
  /\ \A p \in Procs : procs[p].pc = "returned" /\ procs[p].op = "upload"
  /\ {procs[p].data : p \in Procs} = { <<255>>, LongPayload }
  /\ Len(RaceFile) = StdioBlock + 1
  /\ RaceFile[1] = 255
  /\ \A i \in 2..StdioBlock : RaceFile[i] = 0
  /\ RaceFile[StdioBlock + 1] = LongPayload[StdioBlock + 1]

(***************************************************************************)
(* Requests served at once, with uploads that fail.  audio_upload is the   *)
(* derivation of the names, the steps of store.upload, and dbase.put;      *)
(* audio_download is dbase.get and the steps of store.download.  The open  *)
(* and the writes can fail on the device; an upload that fails in a write  *)
(* leaves in the file what the writes before took.                         *)
(***************************************************************************)
ServeFilename == <<"b", "l", "a", "h", ".", "w", "a", "v">>

\* b'\xff', for which uuid raises on Python 2, and the long payload.
ServeBodies == {<<255>>, LongPayload}

\* The device allots space by blocks of this many bytes.
DeviceBlock == 4096

\* What the device may take of a write of left bytes at offset pos: nothing,
\* the bytes up to the end of the block that pos is in, or all of them.
Writtens(pos, left) ==
  {n \in {0, DeviceBlock - (pos % DeviceBlock), left} : n <= left}

\* The identifiers requested: those of the bodies, and one of nothing uploaded.
ServeUris == {UUIDStr(UuidMemo3[Bytes(b)].id) : b \in ServeBodies}
               \cup {"00000000-0000-4000-8000-000000000000"}

\* audio_upload with dbase.put moved before store.upload.
UploadBeginPutFirst(d, n) ==
  [db |-> IF n.raised # "" THEN d
          ELSE DatabasePut(d, n.uri, [filepath |-> n.filepath, created |-> now]),
   raised |-> n.raised]

\* audio_upload from its start to the call of store.upload: the database
\* afterwards and the error raised (by uuid), if any.
UploadBegin(d, n) == [db |-> d, raised |-> n.raised]

\* Request p: POST /audio/upload arrives and runs up to store.upload.
BeginUpload(p, bytestring) ==
  LET n == UploadNames(ServeFilename, bytestring)
      b == UploadBegin(db, n)
  IN  /\ procs[p].pc = "idle"
      /\ db' = b.db
      /\ procs' = [procs EXCEPT ![p] =
                     [@ EXCEPT !.pc = IF b.raised = "" THEN "called" ELSE "raised",
                               !.op = "upload", !.raised = b.raised,
                               !.data = bytestring, !.key = <<n.filepath>>,
                               !.uri = n.uri, !.filepath = n.filepath,
                               !.status = IF b.raised = "" THEN 0 ELSE 500]]
      /\ UNCHANGED <<storeVars, now, resp, keysOf, posted, ids>>

\* Request p: dbase.put(uri, record), and the 200 response.
PutRecord(p) ==
  /\ procs[p].pc = "returned" /\ procs[p].op = "upload"
  /\ db' = DatabasePut(db, procs[p].uri,
                       [filepath |-> procs[p].filepath, created |-> now])
  /\ procs' = [procs EXCEPT ![p] = [@ EXCEPT !.pc = "done", !.status = 200]]
  /\ UNCHANGED <<storeVars, now, resp, keysOf, posted, ids>>

\* Request p: GET /audio/<uri> arrives: dbase.get, and the 404 response or
\* the call of store.download.
BeginDownload(p, uri) ==
  LET entity == DatabaseGet(db, uri)
  IN  /\ procs[p].pc = "idle"
      /\ procs' = [procs EXCEPT ![p] =
                     IF entity = NoRecord
                     THEN [@ EXCEPT !.pc = "done", !.op = "download", !.uri = uri,
                                    !.status = 404]
                     ELSE [@ EXCEPT !.pc = "called", !.op = "download", !.uri = uri,
                                    !.key = <<entity.filepath>>,
                                    !.filepath = entity.filepath]]
      /\ UNCHANGED <<storeVars, httpVars, ids>>

\* Request p is over (answered 200, 404 or 500): the next one can come.
Respond(p) ==
  /\ \/ procs[p].pc \in {"done", "raised"}
     \/ procs[p].pc = "returned" /\ procs[p].op = "download"
  /\ procs' = [procs EXCEPT ![p] = IdleProc]
  /\ UNCHANGED <<storeVars, httpVars, ids>>

NextServe ==
  \/ \E p \in Procs : Respond(p)
  \/ \E p \in Procs, bytestring \in ServeBodies : BeginUpload(p, bytestring)
  \/ \E p \in Procs, uri \in ServeUris : BeginDownload(p, uri)
  \/ \E p \in Procs : ClientExists(p)
  \/ \E p \in Procs : ClientMakedirs(p)
  \/ \E p \in Procs : BucketExists(p)
  \/ \E p \in Procs : BucketMakedirs(p)
  \/ \E p \in Procs, fault \in BOOLEAN : OpenBlob(p, fault)
  \/ \E p \in Procs :
       \E taken \in Writtens(procs[p].pos, LeftToWrite(procs[p])) : WriteBlob(p, taken)
  \/ \E p \in Procs :
       \E taken \in Writtens(procs[p].pos, LeftToWrite(procs[p])) : CloseBlob(p, taken)
  \/ \E p \in Procs : OpenRead(p)
  \/ \E p \in Procs : StatBlob(p)
  \/ \E p \in Procs : ReadChunk(p)
  \/ \E p \in Procs : PutRecord(p)

SpecServe == Init /\ [][NextServe]_vars

\* The blob that a database record names is a file of the store.
RecordHasBlob(d, files, u) ==
  BlobPath(AppStorage.obj, <<d[u].filepath>>) \in DOMAIN files

\* C10: after every step, every database record's filepath names a blob that
\* exists in the store, and a step in which store.upload fails leaves the
\* database unchanged.
C10_RecordsNameBlobs ==
  [][/\ \A u \in DOMAIN db' : RecordHasBlob(db', fsFiles', u)
     /\ \A p \in Procs :
          (procs[p].pc # "raised" /\ procs'[p].pc = "raised") => db' = db]_vars

\* A record is in the database, a later upload of the same bytes has failed
\* after writing a part of them, and a GET of the record's uri is answered 200
\* with that part.
C10_Witness ==
  /\ db # << >>
  /\ \E p, q \in Procs :
       /\ procs[p].pc = "raised" /\ procs[p].raised = "IOError:ENOSPC"
       /\ procs[p].uri \in DOMAIN db
       /\ procs[q].pc = "returned" /\ procs[q].op = "download"
       /\ procs[q].uri = procs[p].uri
       /\ procs[q].status = 200 /\ procs[q].value # procs[p].data

\* On Python 3 an upload of the long payload has failed in its second write,
\* after the device took the first block: the request is answered 500, the
\* file holds the first block of the payload, and there is no record.
C10_BlockLeftReached ==
  /\ py = 3 /\ db = << >>
  /\ \E p \in Procs :
       /\ procs[p].pc = "raised" /\ procs[p].raised = "IOError:ENOSPC"
       /\ procs[p].status = 500 /\ procs[p].data = LongPayload
       /\ procs[p].pos = DeviceBlock
       /\ fsFiles[BlobPath(AppStorage.obj, procs[p].key)]
            = SubSeq(LongPayload, 1, DeviceBlock)

(***************************************************************************)
(* Calls on a LOCAL Storage with keys that are different strings, two of   *)
(* which ("a.wav" and "./a.wav") lead to the same file; one key lies below *)
(* another ("a.wav/b"), one leads out of the bucket ("../x") and one ends  *)
(* with a separator ("a.wav/").                                            *)
(***************************************************************************)
FrameKeys ==
  { <<"a.wav">>, <<".", "a.wav">>, <<"a.wav", "b">>, <<"..", "x">>, <<"a.wav", "">> }

\* b'\x00' and b'\xff'.
FramePayloads == { <<0>>, <<255>> }

NextFrame ==
  \/ \E local_dir \in LocalDirs : Construct(Local, local_dir)
  \/ \E fdata \in FramePayloads, key \in FrameKeys : Upload(fdata, key)
  \/ \E key \in FrameKeys : Download(key)

SpecFrame == Init /\ [][NextFrame]_vars

\* The content of the blob of a key: what download(key) would return or raise.
ContentOf(key) ==
  [raised |-> DownloadNow(key).raised, value |-> DownloadNow(key).value]

\* C11: on a LOCAL Storage, upload(b, k) leaves the content of every other key
\* as it was, and download(k) changes the content of no key and makes no file.
C11_FrameOfUploadAndDownload ==
  [][/\ (ret'.op = "upload" /\ ret'.backend = Local) =>
          \A k \in FrameKeys \ {ret'.key} : ContentOf(k)' = ContentOf(k)
     /\ (ret'.op = "download" /\ ret'.backend = Local) =>
          /\ \A k \in FrameKeys : ContentOf(k)' = ContentOf(k)
          /\ fsFiles' = fsFiles]_vars

\* A download of a key below an uploaded file ("a.wav/b" after "a.wav") fails
\* with the not-a-directory error, which is not the not-found error.
C3_BelowFileNotADirectory ==
  [][(/\ ret'.op = "download" /\ ret'.backend = Local
      /\ ret'.key = <<"a.wav", "b">>
      /\ BlobPath(store, <<"a.wav">>) \in DOMAIN fsFiles)
       => (ret'.raised = "IOError:ENOTDIR" /\ ret'.value = NoBytes)]_vars

\* Such a download has happened.
C3_BelowFileReached ==
  /\ ret.op = "download" /\ ret.backend = Local
  /\ ret.key = <<"a.wav", "b">> /\ ret.raised = "IOError:ENOTDIR"

\* A key that ends with a separator ("a.wav/") names no blob: upload to it
\* raises the is-a-directory error and changes no file, whether a.wav is
\* there or not, and download of it raises the not-a-directory error when
\* a.wav is an uploaded file, the not-found error when it is missing.
C1_TrailingSeparatorRefused ==
  [][/\ (ret'.op = "upload" /\ ret'.backend = Local /\ ret'.key = <<"a.wav", "">>)
          => (ret'.raised = "IOError:EISDIR" /\ fsFiles' = fsFiles)
     /\ (ret'.op = "download" /\ ret'.backend = Local /\ ret'.key = <<"a.wav", "">>)
          => /\ ret'.value = NoBytes
             /\ ret'.raised = IF BlobPath(store, <<"a.wav">>) \in DOMAIN fsFiles
                              THEN "IOError:ENOTDIR" ELSE "IOError:ENOENT"]_vars

\* Such an upload has happened over an uploaded a.wav.
C1_TrailingSeparatorReached ==
  /\ ret.op = "upload" /\ ret.backend = Local
  /\ ret.key = <<"a.wav", "">> /\ ret.raised = "IOError:EISDIR"
  /\ BlobPath(store, <<"a.wav">>) \in DOMAIN fsFiles

\* The file that the blob of a key is, after the latest call.
FileOf(key) == Resolve(fsDirs', fsFiles', BlobPath(store, key)).path

\* The frame holds between files: upload(b, k) leaves every file but the one
\* that k leads to as it was, and download changes no file.
C11_FrameOfDifferentFiles ==
  [][/\ (ret'.op = "upload" /\ ret'.backend = Local) =>
          LET written == FileOf(ret'.key)
          IN  \A f \in DOMAIN fsFiles :
                f # written => f \in DOMAIN fsFiles' /\ fsFiles'[f] = fsFiles[f]
     /\ (ret'.op = "download" /\ ret'.backend = Local) => fsFiles' = fsFiles]_vars

(***************************************************************************)
(* The handlers of appengine_dev.py (POST /api/v0.1/audio and              *)
(* GET /api/v0.1/audio/<uri>): no database; a file type check on upload;   *)
(* the requested name itself is the storage key on download.               *)
(***************************************************************************)
AUDIO_EXTENSIONS == {"wav", "ogg", "mp3", "au", "aiff"}

\* "blah.wav", "blah.txt" and "noext".
AppengineFilenames ==
  { <<"b", "l", "a", "h", ".", "w", "a", "v">>,
    <<"b", "l", "a", "h", ".", "t", "x", "t">>,
    <<"n", "o", "e", "x", "t">> }

AppengineBodies == {MyFileContents, <<255>>}

\* The names requested: uris, and uris with the extension.
AppengineUris ==
  { UUIDStr(UuidMemo3[Bytes(b)].id) : b \in AppengineBodies }
    \cup { UUIDStr(UuidMemo3[Bytes(b)].id) \o ".wav" : b \in AppengineBodies }

\* os.path.splitext(audio_data.filename)[-1][1:]
FileExt(filename) ==
  LET e == SplitExt(filename) IN Str(SubSeq(e, 2, Len(e)))

\* appengine_dev.audio_upload
AppengineAudioUpload(filename, bytestring) ==
  LET file_ext == FileExt(filename)
      id == uuid(Bytes(bytestring))
      uri == IF id.raised = "" THEN UUIDStr(id.id) ELSE ""
      filepath == uri \o "." \o file_ext
      up == LocalUpload(fsDirs, fsFiles, AppStorage.obj, bytestring, <<filepath>>)
      req == [NoResp EXCEPT !.route = "appengine.audio_upload",
                            !.filename = Str(filename), !.fext = file_ext]
      stored == file_ext \in AUDIO_EXTENSIONS /\ id.raised = ""
  IN  /\ fsDirs' = IF stored THEN up.dirs ELSE fsDirs
      /\ fsFiles' = IF stored THEN up.files ELSE fsFiles
      /\ resp' =
           IF file_ext \notin AUDIO_EXTENSIONS
           THEN [req EXCEPT !.status = 400, !.message = "Filetype not supported."]
           ELSE IF id.raised # "" \/ up.raised # ""
           THEN [req EXCEPT !.body = bytestring, !.status = 500,
                            !.message = "An internal error occurred."]
           ELSE [req EXCEPT !.body = bytestring, !.status = 200,
                            !.filepath = filepath, !.created = now]
      /\ UNCHANGED <<py, store, cloudBucket, cloudObjs, ret, latest, now, db, keysOf,
                     posted, ids, procs>>

\* appengine_dev.audio_download
AppengineAudioDownload(uri) ==
  LET got == LocalDownload(fsDirs, fsFiles, AppStorage.obj, <<uri>>)
      req == [NoResp EXCEPT !.route = "appengine.audio_download", !.uri = uri]
  IN  /\ fsDirs' = got.dirs
      /\ resp' = IF got.raised # ""
                 THEN [req EXCEPT !.status = 500,
                                  !.message = "An internal error occurred."]
                 ELSE [req EXCEPT !.status = 200, !.data = got.value]
      /\ UNCHANGED <<py, store, fsFiles, cloudBucket, cloudObjs, ret, latest, now, db,
                     keysOf, posted, ids, procs>>

NextAppengine ==
  \/ Tick
  \/ \E filename \in AppengineFilenames, bytestring \in AppengineBodies :
       AppengineAudioUpload(filename, bytestring)
  \/ \E uri \in AppengineUris : AppengineAudioDownload(uri)

SpecAppengine == Init /\ [][NextAppengine]_vars

====
